---- MODULE Spec2Model ----
(***************************************************************************)
(* Model of the spa booking backend: the three variants of the Express     *)
(* server (server.js without reminders, server4.js with reminders and an   *)
(* in-memory token map, unnamed/part_000 with reminders and signed         *)
(* tokens).  A request is a process that owns one slot; every awaited      *)
(* repository call is one atomic step of the store, and the synchronous    *)
(* code that follows the await belongs to the same step.                   *)
(*                                                                         *)
(* Conventions.  Missing is a field that is absent or empty in the request *)
(* (both are falsy for the handlers).  An update document is written as    *)
(* given: an absent optional field overwrites the stored one with the      *)
(* empty value, which is what the ODM generation selected by the connect   *)
(* options of the sources does.  Timestamps are milliseconds counted from  *)
(* 2024-01-01T00:00 local time, which keeps them within 32-bit integers.  *)
(***************************************************************************)
EXTENDS Integers, Sequences, FiniteSets, TLC

\* ---------------------------------------------------------------- bounds
\* Number of requests that may be in flight at the same time.
MaxSlots == 2
\* Number of booking requests accepted in one run.
MaxRequests == 3
\* Number of token requests accepted in one run.
MaxTokenRequests == 3

Slots == 1..MaxSlots

\* ---------------------------------------------------------------- inputs
Missing == ""

Variants == {"server", "server4", "part_000"}

ReminderVariants == {"server4", "part_000"}

MkBody(n, p, s, t, d, x) ==
  [name |-> n, phone |-> p, service |-> s, time |-> t, date |-> d, notes |-> x]

NoBody == MkBody(Missing, Missing, Missing, Missing, Missing, Missing)

\* Bodies whose required fields are present and whose date and time parse.
WellFormedBodies ==
  { MkBody("A", "555", "cut", "14:00", "2024-01-10", "n"),
    MkBody("B", "555", "cut", "15:00", "2024-01-10", Missing),
    MkBody("A", "777", "cut", "14:00", "2024-01-10", Missing) }

\* Required fields present, but the time does not parse.
MalformedBodies ==
  { MkBody("A", "555", "cut", "25:61", "2024-01-10", Missing) }

\* One required field missing, one body for each of the five.
IncompleteBodies ==
  { MkBody(Missing, "555", "cut", "15:00", "2024-01-10", "n"),
    MkBody("A", Missing, "cut", "15:00", "2024-01-10", "n"),
    MkBody("A", "555", Missing, "15:00", "2024-01-10", "n"),
    MkBody("A", "555", "cut", Missing, "2024-01-10", "n"),
    MkBody("A", "555", "cut", "15:00", Missing, "n") }

Bodies == WellFormedBodies \cup MalformedBodies \cup IncompleteBodies

\* Bodies of modify-appointment, which checks no field: complete ones, and
\* ones without the phone or without the date.
ModifyBodies ==
  WellFormedBodies \cup MalformedBodies
    \cup { b \in IncompleteBodies : b.phone = Missing \/ b.date = Missing }

Phones == {"555", "777"}

CancelPhones == Phones \cup {Missing}

\* ------------------------------------------------------------ date values
\* A JavaScript Date: a time value, or the invalid date (NaN).
InvalidDate == [kind |-> "date", valid |-> FALSE, ms |-> 0]

MkDate(t) == [kind |-> "date", valid |-> TRUE, ms |-> t]

\* Day of the date string counted from 2024-01-01, -1 when it does not parse.
DayOf(date) ==
  CASE date = "2024-01-10" -> 9
    [] date = "2024-01-11" -> 10
    [] OTHER -> -1

\* Minute of the day of the time string, -1 when it does not parse.
MinuteOf(time) ==
  CASE time = "14:00" -> 14 * 60
    [] time = "15:00" -> 15 * 60
    [] OTHER -> -1

\* new Date(`${date}T${time}`)
NewDate(date, time) ==
  IF DayOf(date) < 0 \/ MinuteOf(time) < 0
  THEN InvalidDate
  ELSE MkDate(DayOf(date) * 24 * 60 * 60 * 1000 + MinuteOf(time) * 60 * 1000)

\* new Date(appointmentDateTime.getTime() - 60 * 60 * 1000)
AlertTime(d) ==
  IF d.valid THEN MkDate(d.ms - 60 * 60 * 1000) ELSE InvalidDate

\* alertTime.toISOString(): a string, or a RangeError for the invalid date.
ToISOString(d) ==
  IF d.valid THEN [kind |-> "iso", threw |-> FALSE, ms |-> d.ms]
  ELSE [kind |-> "iso", threw |-> TRUE, ms |-> 0]

CastDateAcceptsAnything(v) == [ok |-> TRUE, ms |-> v.ms]

\* The ODM's cast of a value to the Date type of alertTime: a Date that is
\* invalid is rejected, a string is parsed.
CastDate(v) ==
  IF v.kind = "iso" THEN [ok |-> ~v.threw, ms |-> v.ms]
  ELSE [ok |-> v.valid, ms |-> v.ms]

\* The value the handler passes as alertTime.
AlertValue(v, body) ==
  IF v = "part_000"
  THEN ToISOString(AlertTime(NewDate(body.date, body.time)))
  ELSE AlertTime(NewDate(body.date, body.time))

\* The handler's own code throws before the Reminder call is issued.
ThrowsBeforeReminder(v, body) ==
  v = "part_000" /\ ~AlertTime(NewDate(body.date, body.time)).valid

\* ------------------------------------------------- Appointment repository
NoId == 0

\* A stored Appointment document: _id and the six schema fields.
MkAppointment(id, b) ==
  [id |-> id, name |-> b.name, phone |-> b.phone, service |-> b.service,
   time |-> b.time, date |-> b.date, notes |-> b.notes]

\* The documents the filter { phone } matches.
FindByPhone(appts, phone) == { a \in appts : a.phone = phone }

FindOne(appts, phone) == CHOOSE a \in FindByPhone(appts, phone) : TRUE

\* _id of the document findOneAndUpdate / findOneAndDelete returns, NoId for null.
FoundId(appts, phone) ==
  IF FindByPhone(appts, phone) = {} THEN NoId ELSE FindOne(appts, phone).id

UpsertAlwaysInserts(appts, b, id) == appts \cup {MkAppointment(id, b)}

\* findOneAndUpdate({ phone }, { name, phone, service, time, date, notes },
\*                  { upsert: true, new: true })
UpsertByPhone(appts, b, id) ==
  IF FindByPhone(appts, b.phone) = {}
  THEN appts \cup {MkAppointment(id, b)}
  ELSE (appts \ {FindOne(appts, b.phone)})
         \cup {MkAppointment(FindOne(appts, b.phone).id, b)}

UpdateByPhoneUpserts(appts, b) == UpsertByPhone(appts, b, NoId)

\* findOneAndUpdate({ phone }, { name, service, time, date, notes }, { new: true })
UpdateByPhone(appts, b) ==
  IF FindByPhone(appts, b.phone) = {}
  THEN appts
  ELSE (appts \ {FindOne(appts, b.phone)})
         \cup {[FindOne(appts, b.phone) EXCEPT
                  !.name = b.name, !.service = b.service, !.time = b.time,
                  !.date = b.date, !.notes = b.notes]}

DeleteByPhoneOrAny(appts, phone) ==
  IF FindByPhone(appts, phone) # {} THEN appts \ {FindOne(appts, phone)}
  ELSE IF appts = {} THEN appts
  ELSE appts \ {CHOOSE a \in appts : TRUE}

\* findOneAndDelete({ phone })
DeleteByPhone(appts, phone) ==
  IF FindByPhone(appts, phone) = {}
  THEN appts
  ELSE appts \ {FindOne(appts, phone)}

\* ---------------------------------------------------- Reminder repository
\* Positions of the Reminder documents the filter { appointmentId } matches.
ReminderMatches(rems, id) ==
  { i \in 1..Len(rems) : rems[i].appointmentId = id }

\* The document a findOne-style operation acts on: any match (the store
\* fixes no order among matches), position 0 when nothing matches.
ReminderTargets(rems, id) ==
  IF ReminderMatches(rems, id) = {} THEN {0} ELSE ReminderMatches(rems, id)

\* Reminder.create({ appointmentId, alertTime }): status defaults to pending.
CreateReminder(rems, id, ms) ==
  Append(rems, [appointmentId |-> id, alertTime |-> ms, status |-> "pending"])

UpdateReminderAtUpserts(rems, i, ms, v) ==
  IF i = 0
  THEN Append(rems, [appointmentId |-> 0, alertTime |-> ms, status |-> "pending"])
  ELSE [rems EXCEPT ![i] =
          [@ EXCEPT !.alertTime = ms,
                    !.status = IF v = "server4" THEN "pending" ELSE @]]

\* Reminder.findOneAndUpdate({ appointmentId }, ...) acting on position i.
\* server4.js sets alertTime and status; part_000 passes { status: 'pending' }
\* in the options position, so only alertTime is in the update document.
UpdateReminderAt(rems, i, ms, v) ==
  IF i = 0 THEN rems
  ELSE [rems EXCEPT ![i] =
          [@ EXCEPT !.alertTime = ms,
                    !.status = IF v = "server4" THEN "pending" ELSE @]]

\* Reminder.deleteOne({ appointmentId }) acting on position i.
DeleteReminderAt(rems, i) ==
  IF i = 0 THEN rems
  ELSE SubSeq(rems, 1, i - 1) \o SubSeq(rems, i + 1, Len(rems))

\* !name || !phone || !service || !time || !date
MissingRequiredNoDate(b) ==
  b.name = Missing \/ b.phone = Missing \/ b.service = Missing
    \/ b.time = Missing

MissingRequired(b) ==
  b.name = Missing \/ b.phone = Missing \/ b.service = Missing
    \/ b.time = Missing \/ b.date = Missing

\* ------------------------------------------------------------------ state
VARIABLES
  variant,       \* which of the three server files is running
  appointments,  \* the Appointment collection: a set of documents
  reminders,     \* the Reminder collection, in insertion order
  nextId,        \* the next fresh Appointment _id
  req,           \* per slot: the request in flight and where its handler is
  last,          \* the request that completed last: what its caller was told
  reqCount,      \* booking requests accepted so far
  tokenStore,    \* server4.js: token -> { phone, name }
  issued,        \* the { token } replies generate-token gave, with their query
  tokenReply,    \* the reply of the last token request
  tokCount,      \* token requests accepted so far
  clock,         \* part_000: minutes elapsed since the server started
  jwtIssued,     \* part_000: the signed tokens generate-token gave out
  jwtReply,      \* part_000: the reply of the last token request
  lookupReply    \* the reply of the last lookup request

vars ==
  <<variant, appointments, reminders, nextId, req, last, reqCount,
    tokenStore, issued, tokenReply, tokCount, clock, jwtIssued, jwtReply,
    lookupReply>>

tokenVars == <<tokenStore, issued, tokenReply, tokCount, clock, jwtIssued, jwtReply>>

bookingVars == <<appointments, reminders, nextId, req, last, reqCount, lookupReply>>

Idle == [op |-> "none", body |-> NoBody, pc |-> "idle", status |-> 0, appt |-> NoId]

NoLast == [op |-> "none", phone |-> Missing, status |-> 0, err |-> FALSE, writes |-> 0]

EmptyStore == [t \in {} |-> 0]

NoReply == [op |-> "none", status |-> 0, token |-> Missing, phone |-> Missing, name |-> Missing]

\* No token in the query of a part_000 token request.
NoJwt == [present |-> FALSE, signed |-> FALSE, phone |-> Missing, exp |-> 0]

NoJwtReply == [op |-> "none", status |-> 0, token |-> NoJwt, phone |-> Missing]

\* An Appointment document in a lookup reply; found = FALSE stands for none.
NoDocument == [found |-> FALSE, doc |-> MkAppointment(NoId, NoBody)]

NoLookup == [n |-> 0, kind |-> "none", phone |-> Missing, status |-> 0,
             exists |-> FALSE, appointment |-> NoDocument]

Init ==
  /\ variant \in Variants
  /\ appointments = {}
  /\ reminders = <<>>
  /\ nextId = 1
  /\ req = [s \in Slots |-> Idle]
  /\ last = NoLast
  /\ reqCount = 0
  /\ tokenStore = EmptyStore
  /\ issued = {}
  /\ tokenReply = NoReply
  /\ tokCount = 0
  /\ clock = 0
  /\ jwtIssued = {}
  /\ jwtReply = NoJwtReply
  /\ lookupReply = NoLookup

\* -------------------------------------------------------- request plumbing
\* A request arrives and takes a free slot; its handler runs up to the first await.
Accept(s, op, body, pc) ==
  /\ req[s].pc = "idle"
  /\ reqCount < MaxRequests
  /\ reqCount' = reqCount + 1
  /\ req' = [req EXCEPT ![s] =
               [op |-> op, body |-> body, pc |-> pc, status |-> 0, appt |-> NoId]]

\* Response writes a handler attempted: its own res.json / res.status(..).json
\* (every status but 500 comes from one), and the centralized error handler's
\* res.status(500).json when an error reached next(error).
ResponseWrites(st, e) ==
  (IF st = 500 THEN 0 ELSE 1) + (IF e THEN 1 ELSE 0)

\* The handler of slot s has run to its end: st is the status line the caller
\* got, e whether an error was handed to next(error) or thrown on the way.
Finish(s, st, e) ==
  /\ req' = [req EXCEPT ![s] = Idle]
  /\ last' = [op |-> req[s].op, phone |-> req[s].body.phone, status |-> st, err |-> e,
              writes |-> ResponseWrites(st, e)]

InternalErrorAnswers200(s) == Finish(s, 200, TRUE)

\* Centralized error handler reached before any response was written.
InternalError(s) == Finish(s, 500, TRUE)

ContinueWithoutResponse(s, pc, id) ==
  /\ req' = [req EXCEPT ![s] = [@ EXCEPT !.pc = pc, !.appt = id]]
  /\ UNCHANGED last

\* The handler of slot s has written its success response and goes on to
\* await its Reminder call.
Continue(s, pc, id) ==
  /\ req' = [req EXCEPT ![s] = [@ EXCEPT !.pc = pc, !.status = 200, !.appt = id]]
  /\ UNCHANGED last

\* ---------------------------------------------------------- submit-booking
SubmitStart(s, body) ==
  /\ IF MissingRequired(body)
     THEN /\ req[s].pc = "idle"
          /\ reqCount < MaxRequests
          /\ reqCount' = reqCount + 1
          /\ req' = req
          /\ last' = [op |-> "submit", phone |-> body.phone, status |-> 400, err |-> FALSE,
                      writes |-> ResponseWrites(400, FALSE)]
     ELSE /\ Accept(s, "submit", body, "upsert")
          /\ UNCHANGED last
  /\ UNCHANGED <<variant, appointments, reminders, nextId>>
  /\ UNCHANGED <<tokenVars, lookupReply>>

\* The awaited Appointment.findOneAndUpdate(..., { upsert: true }) and the code
\* after it up to the next await.
SubmitUpsert(s, ok) ==
  /\ req[s].op = "submit" /\ req[s].pc = "upsert"
  /\ IF ~ok
     THEN /\ InternalError(s)
          /\ UNCHANGED <<appointments, nextId>>
     ELSE /\ appointments' = UpsertByPhone(appointments, req[s].body, nextId)
          /\ nextId' = IF FindByPhone(appointments, req[s].body.phone) = {}
                       THEN nextId + 1 ELSE nextId
          /\ IF variant = "server"
             THEN Finish(s, 200, FALSE)
             ELSE IF ThrowsBeforeReminder(variant, req[s].body)
             THEN Finish(s, 200, TRUE)
             ELSE Continue(s, "create_reminder",
                           FoundId(appointments', req[s].body.phone))
  /\ UNCHANGED <<variant, reminders, reqCount>>
  /\ UNCHANGED <<tokenVars, lookupReply>>

\* The awaited Reminder.create.
SubmitReminder(s, ok) ==
  /\ req[s].op = "submit" /\ req[s].pc = "create_reminder"
  /\ LET cast == CastDate(AlertValue(variant, req[s].body)) IN
       IF ok /\ cast.ok
       THEN /\ reminders' = CreateReminder(reminders, req[s].appt, cast.ms)
            /\ Finish(s, 200, FALSE)
       ELSE /\ UNCHANGED reminders
            /\ Finish(s, 200, TRUE)
  /\ UNCHANGED <<variant, appointments, nextId, reqCount>>
  /\ UNCHANGED <<tokenVars, lookupReply>>

\* ------------------------------------------------------ modify-appointment
ModifyStart(s, body) ==
  /\ Accept(s, "modify", body, "update")
  /\ UNCHANGED <<variant, appointments, reminders, nextId, last>>
  /\ UNCHANGED <<tokenVars, lookupReply>>

\* The awaited Appointment.findOneAndUpdate (no upsert) and the code after it.
ModifyUpdate(s, ok) ==
  /\ req[s].op = "modify" /\ req[s].pc = "update"
  /\ IF ~ok
     THEN /\ InternalError(s)
          /\ UNCHANGED appointments
     ELSE /\ appointments' = UpdateByPhone(appointments, req[s].body)
          /\ IF FoundId(appointments, req[s].body.phone) = NoId
             THEN Finish(s, 404, FALSE)
             ELSE IF variant = "server"
             THEN Finish(s, 200, FALSE)
             ELSE IF ThrowsBeforeReminder(variant, req[s].body)
             THEN Finish(s, 200, TRUE)
             ELSE Continue(s, "update_reminder",
                           FoundId(appointments, req[s].body.phone))
  /\ UNCHANGED <<variant, reminders, nextId, reqCount>>
  /\ UNCHANGED <<tokenVars, lookupReply>>

\* How the ODM takes part_000's four-argument findOneAndUpdate call: it either
\* rejects the object in the callback position, or runs the update without it.
FourArgumentOutcomes == {"rejected", "update_run"}

\* The awaited Reminder.findOneAndUpdate.
ModifyReminder(s, ok) ==
  /\ req[s].op = "modify" /\ req[s].pc = "update_reminder"
  /\ LET cast == CastDate(AlertValue(variant, req[s].body)) IN
       \E i \in ReminderTargets(reminders, req[s].appt) :
       \E lib \in IF variant = "part_000" THEN FourArgumentOutcomes ELSE {"update_run"} :
         IF ok /\ cast.ok /\ lib = "update_run"
         THEN /\ reminders' = UpdateReminderAt(reminders, i, cast.ms, variant)
              /\ Finish(s, 200, FALSE)
         ELSE /\ UNCHANGED reminders
              /\ Finish(s, 200, TRUE)
  /\ UNCHANGED <<variant, appointments, nextId, reqCount>>
  /\ UNCHANGED <<tokenVars, lookupReply>>

\* ------------------------------------------------------ cancel-appointment
CancelStart(s, phone) ==
  /\ Accept(s, "cancel", [NoBody EXCEPT !.phone = phone], "delete")
  /\ UNCHANGED <<variant, appointments, reminders, nextId, last>>
  /\ UNCHANGED <<tokenVars, lookupReply>>

\* The awaited Appointment.findOneAndDelete and the code after it.
CancelDelete(s, ok) ==
  /\ req[s].op = "cancel" /\ req[s].pc = "delete"
  /\ IF ~ok
     THEN /\ InternalError(s)
          /\ UNCHANGED appointments
     ELSE /\ appointments' = DeleteByPhone(appointments, req[s].body.phone)
          /\ IF FoundId(appointments, req[s].body.phone) = NoId
             THEN Finish(s, 404, FALSE)
             ELSE IF variant = "server"
             THEN Finish(s, 200, FALSE)
             ELSE /\ req' = [req EXCEPT ![s] =
                       [@ EXCEPT !.pc = "delete_reminder",
                                 !.appt = FoundId(appointments, req[s].body.phone)]]
                  /\ UNCHANGED last
  /\ UNCHANGED <<variant, reminders, nextId, reqCount>>
  /\ UNCHANGED <<tokenVars, lookupReply>>

CancelReminderIgnoresFailure(s, ok) ==
  /\ req[s].op = "cancel" /\ req[s].pc = "delete_reminder"
  /\ IF ~ok
     THEN /\ Finish(s, 200, FALSE)
          /\ UNCHANGED reminders
     ELSE /\ \E i \in ReminderTargets(reminders, req[s].appt) :
               reminders' = DeleteReminderAt(reminders, i)
          /\ Finish(s, 200, FALSE)
  /\ UNCHANGED <<variant, appointments, nextId, reqCount>>
  /\ UNCHANGED <<tokenVars, lookupReply>>

\* The awaited Reminder.deleteOne, then the success response.
CancelReminder(s, ok) ==
  /\ req[s].op = "cancel" /\ req[s].pc = "delete_reminder"
  /\ IF ~ok
     THEN /\ InternalError(s)
          /\ UNCHANGED reminders
     ELSE /\ \E i \in ReminderTargets(reminders, req[s].appt) :
               reminders' = DeleteReminderAt(reminders, i)
          /\ Finish(s, 200, FALSE)
  /\ UNCHANGED <<variant, appointments, nextId, reqCount>>
  /\ UNCHANGED <<tokenVars, lookupReply>>

\* ----------------------------------------------------------------- lookups
\* Lookups answered in one behaviour.
MaxLookups == 2

LookupKinds == {"check-phone", "appointment", "confirmation"}

\* A route parameter is never empty; the query parameter of /confirmation may be absent.
LookupPhones(kind) == IF kind = "confirmation" THEN Phones \cup {Missing} ELSE Phones

FindOneAnyPhone(appts, phone) ==
  IF appts = {} THEN NoDocument
  ELSE [found |-> TRUE, doc |-> CHOOSE a \in appts : TRUE]

\* Appointment.findOne({ phone }): a matching document, or null.
FindOneDocument(appts, phone) ==
  IF FindByPhone(appts, phone) = {} THEN NoDocument
  ELSE [found |-> TRUE, doc |-> FindOne(appts, phone)]

\* The response of the n-th lookup: document is what findOne resolved to, ok
\* whether it resolved at all.
LookupReplyFor(n, kind, phone, document, ok) ==
  IF kind = "confirmation" /\ phone = Missing
  THEN [n |-> n, kind |-> kind, phone |-> phone, status |-> 400,
        exists |-> FALSE, appointment |-> NoDocument]
  ELSE IF ~ok
  THEN [n |-> n, kind |-> kind, phone |-> phone, status |-> 500,
        exists |-> FALSE, appointment |-> NoDocument]
  ELSE IF kind = "check-phone"
  THEN [n |-> n, kind |-> kind, phone |-> phone, status |-> 200,
        exists |-> document.found, appointment |-> document]
  ELSE IF document.found
  THEN [n |-> n, kind |-> kind, phone |-> phone, status |-> 200,
        exists |-> FALSE, appointment |-> document]
  ELSE [n |-> n, kind |-> kind, phone |-> phone, status |-> 404,
        exists |-> FALSE, appointment |-> NoDocument]

\* GET /check-phone/:phone, GET /appointment/:phone, GET /confirmation: the
\* awaited Appointment.findOne and the response after it.
Lookup(kind, phone, ok) ==
  /\ lookupReply.n < MaxLookups
  /\ lookupReply' = LookupReplyFor(lookupReply.n + 1, kind, phone,
                                   FindOneDocument(appointments, phone), ok)
  /\ UNCHANGED <<variant, appointments, reminders, nextId, req, last, reqCount>>
  /\ UNCHANGED tokenVars

\* ------------------------------------------------------------ environment
\* The reminder dispatcher, which is outside these files, marks a pending
\* Reminder as sent (the second value the schema's status comment names).
MarkSent(i) ==
  /\ i \in 1..Len(reminders)
  /\ reminders[i].status = "pending"
  /\ reminders' = [reminders EXCEPT ![i] = [@ EXCEPT !.status = "sent"]]
  /\ UNCHANGED <<variant, appointments, nextId, req, last, reqCount>>
  /\ UNCHANGED <<tokenVars, lookupReply>>

\* ------------------------------------------------- token store (server4.js)
\* Strings generateSimpleToken can return: 8 characters drawn at random from
\* the 62 letters and digits (a few of its outputs stand for all of them).
SimpleTokens == {"aB3xY9Qz", "Zk81mNp0", "toString"}

\* Tokens a caller may present: those above, none, and one never generated.
QueryTokens == SimpleTokens \cup {Missing, "constructor"}

TokenPhones == Phones \cup {Missing}

TokenNames == {"A", "B", Missing}

\* Values a property read of tokenStore can give.
Data(phone, name) == [kind |-> "data", phone |-> phone, name |-> name]

Undefined == [kind |-> "undefined", phone |-> Missing, name |-> Missing]

Inherited == [kind |-> "function", phone |-> Missing, name |-> Missing]

\* Property names every object literal inherits (among the names used here).
ObjectPrototypeKeys == {"toString", "constructor"}

\* tokenStore[token]: an own entry, else an inherited property, else undefined.
TokenStoreGet(store, token) ==
  IF token \in DOMAIN store THEN store[token]
  ELSE IF token \in ObjectPrototypeKeys THEN Inherited
  ELSE Undefined

\* tokenStore[token] = { phone, name }
TokenStorePut(store, token, phone, name) ==
  [t \in DOMAIN store \cup {token} |->
     IF t = token THEN Data(phone, name) ELSE store[t]]

\* GET /generate-token: token is the string generateSimpleToken returned.
GenerateToken(phone, name, token) ==
  /\ variant = "server4"
  /\ tokCount < MaxTokenRequests
  /\ tokCount' = tokCount + 1
  /\ IF phone = Missing \/ name = Missing
     THEN /\ tokenReply' = [op |-> "generate", status |-> 400, token |-> Missing,
                            phone |-> Missing, name |-> Missing]
          /\ UNCHANGED <<tokenStore, issued>>
     ELSE /\ tokenStore' = TokenStorePut(tokenStore, token, phone, name)
          /\ tokenReply' = [op |-> "generate", status |-> 200, token |-> token,
                            phone |-> Missing, name |-> Missing]
          /\ issued' = issued \cup {[token |-> token, phone |-> phone, name |-> name]}
  /\ UNCHANGED <<variant, clock, jwtIssued, jwtReply>>
  /\ UNCHANGED bookingVars

ValidateTokenSingleUse(token) ==
  /\ variant = "server4"
  /\ tokCount < MaxTokenRequests
  /\ tokCount' = tokCount + 1
  /\ tokenReply' =
       IF token = Missing
       THEN [op |-> "validate", status |-> 400, token |-> token,
             phone |-> Missing, name |-> Missing]
       ELSE IF TokenStoreGet(tokenStore, token).kind = "undefined"
       THEN [op |-> "validate", status |-> 401, token |-> token,
             phone |-> Missing, name |-> Missing]
       ELSE [op |-> "validate", status |-> 200, token |-> token,
             phone |-> TokenStoreGet(tokenStore, token).phone,
             name |-> TokenStoreGet(tokenStore, token).name]
  /\ tokenStore' = [t \in DOMAIN tokenStore \ {token} |-> tokenStore[t]]
  /\ UNCHANGED <<variant, issued, clock, jwtIssued, jwtReply>>
  /\ UNCHANGED bookingVars

\* GET /validate-token
ValidateToken(token) ==
  /\ variant = "server4"
  /\ tokCount < MaxTokenRequests
  /\ tokCount' = tokCount + 1
  /\ tokenReply' =
       IF token = Missing
       THEN [op |-> "validate", status |-> 400, token |-> token,
             phone |-> Missing, name |-> Missing]
       ELSE IF TokenStoreGet(tokenStore, token).kind = "undefined"
       THEN [op |-> "validate", status |-> 401, token |-> token,
             phone |-> Missing, name |-> Missing]
       ELSE [op |-> "validate", status |-> 200, token |-> token,
             phone |-> TokenStoreGet(tokenStore, token).phone,
             name |-> TokenStoreGet(tokenStore, token).name]
  /\ UNCHANGED <<variant, tokenStore, issued, clock, jwtIssued, jwtReply>>
  /\ UNCHANGED bookingVars

\* ------------------------------------------------ signed tokens (part_000)
\* expiresIn: "15m"
TokenLifetimeMinutes == 15

\* Minutes the clock advances in one step, and the number of such steps.
TickMinutes == 5
MaxTicks == 4

\* jwt.sign({ phone }, SECRET_KEY, { expiresIn: "15m" }) at time now.
JwtSign(phone, now) ==
  [present |-> TRUE, signed |-> TRUE, phone |-> phone,
   exp |-> now + TokenLifetimeMinutes]

\* A token nobody issued: its signature was not made with SECRET_KEY.
ForgedJwt ==
  [present |-> TRUE, signed |-> FALSE, phone |-> "555",
   exp |-> MaxTicks * TickMinutes + TokenLifetimeMinutes]

\* jwt.verify(token, SECRET_KEY) at time now returns the payload: the
\* signature is SECRET_KEY's and the expiry has not been reached.
JwtVerify(token, now) == token.signed /\ now < token.exp

\* GET /generate-token of part_000
GenerateSigned(phone) ==
  /\ variant = "part_000"
  /\ tokCount < MaxTokenRequests
  /\ tokCount' = tokCount + 1
  /\ IF phone = Missing
     THEN /\ jwtReply' = [op |-> "generate", status |-> 400, token |-> NoJwt,
                          phone |-> Missing]
          /\ UNCHANGED jwtIssued
     ELSE /\ jwtReply' = [op |-> "generate", status |-> 200,
                          token |-> JwtSign(phone, clock), phone |-> Missing]
          /\ jwtIssued' = jwtIssued \cup {JwtSign(phone, clock)}
  /\ UNCHANGED <<variant, tokenStore, issued, tokenReply, clock>>
  /\ UNCHANGED bookingVars

\* GET /validate-token of part_000
ValidateSigned(token) ==
  /\ variant = "part_000"
  /\ tokCount < MaxTokenRequests
  /\ tokCount' = tokCount + 1
  /\ jwtReply' =
       IF ~token.present
       THEN [op |-> "validate", status |-> 400, token |-> token, phone |-> Missing]
       ELSE IF ~JwtVerify(token, clock)
       THEN [op |-> "validate", status |-> 401, token |-> token, phone |-> Missing]
       ELSE [op |-> "validate", status |-> 200, token |-> token, phone |-> token.phone]
  /\ UNCHANGED <<variant, tokenStore, issued, tokenReply, clock, jwtIssued>>
  /\ UNCHANGED bookingVars

\* Time passes.
Tick ==
  /\ variant = "part_000"
  /\ clock < MaxTicks * TickMinutes
  /\ clock' = clock + TickMinutes
  /\ UNCHANGED <<variant, tokenStore, issued, tokenReply, tokCount, jwtIssued, jwtReply>>
  /\ UNCHANGED bookingVars

\* ---------------------------------------------------------- specifications
\* Requests run concurrently; any repository call may fail.
Next ==
  \E s \in Slots :
    \/ \E b \in Bodies : SubmitStart(s, b)
    \/ \E b \in ModifyBodies : ModifyStart(s, b)
    \/ \E p \in CancelPhones : CancelStart(s, p)
    \/ \E ok \in BOOLEAN : SubmitUpsert(s, ok)
    \/ \E ok \in BOOLEAN : SubmitReminder(s, ok)
    \/ \E ok \in BOOLEAN : ModifyUpdate(s, ok)
    \/ \E ok \in BOOLEAN : ModifyReminder(s, ok)
    \/ \E ok \in BOOLEAN : CancelDelete(s, ok)
    \/ \E ok \in BOOLEAN : CancelReminder(s, ok)

Spec == Init /\ [][Next]_vars

NoneInFlight == \A s \in Slots : req[s].pc = "idle"

\* Requests with well-formed bodies run one at a time, each to completion, and
\* no repository call fails; the dispatcher may mark reminders as sent.
NextSeq ==
  \/ \E s \in Slots :
       \/ \E b \in WellFormedBodies : NoneInFlight /\ SubmitStart(s, b)
       \/ \E b \in WellFormedBodies : NoneInFlight /\ ModifyStart(s, b)
       \/ \E p \in Phones : NoneInFlight /\ CancelStart(s, p)
       \/ SubmitUpsert(s, TRUE)
       \/ SubmitReminder(s, TRUE)
       \/ ModifyUpdate(s, TRUE)
       \/ ModifyReminder(s, TRUE)
       \/ CancelDelete(s, TRUE)
       \/ CancelReminder(s, TRUE)
  \/ \E i \in 1..MaxRequests : NoneInFlight /\ MarkSent(i)

SpecSeq == Init /\ [][NextSeq]_vars

\* Writing requests with well-formed bodies run one at a time and no
\* repository call of theirs fails; lookups arrive at any moment.
NextLookup ==
  \/ \E s \in Slots :
       \/ \E b \in WellFormedBodies : NoneInFlight /\ SubmitStart(s, b)
       \/ \E b \in WellFormedBodies : NoneInFlight /\ ModifyStart(s, b)
       \/ \E p \in Phones : NoneInFlight /\ CancelStart(s, p)
       \/ SubmitUpsert(s, TRUE)
       \/ SubmitReminder(s, TRUE)
       \/ ModifyUpdate(s, TRUE)
       \/ ModifyReminder(s, TRUE)
       \/ CancelDelete(s, TRUE)
       \/ CancelReminder(s, TRUE)
  \/ \E k \in LookupKinds : \E p \in LookupPhones(k) : \E ok \in BOOLEAN : Lookup(k, p, ok)

SpecLookup == Init /\ [][NextLookup]_vars

\* Token requests: against the in-memory map of server4.js, and against the
\* signed tokens of part_000 while time passes.
NextTok ==
  \/ \E p \in TokenPhones, n \in TokenNames, t \in SimpleTokens : GenerateToken(p, n, t)
  \/ \E t \in QueryTokens : ValidateToken(t)
  \/ \E p \in TokenPhones : GenerateSigned(p)
  \/ \E t \in jwtIssued \cup {NoJwt, ForgedJwt} : ValidateSigned(t)
  \/ Tick

SpecTok == Init /\ [][NextTok]_vars

\* ------------------------------------------------------------ properties
\* Appointment _ids that some document of either collection carries.
KnownIds ==
  { a.id : a \in appointments } \cup { reminders[i].appointmentId : i \in 1..Len(reminders) }

\* alertTime the handlers derive from a date and a time that parse.
ExpectedAlertMs(date, time) == AlertTime(NewDate(date, time)).ms

\* Slot s takes the step that ends its handler from position pc.
Completes(s, op, pc) ==
  req[s].op = op /\ req[s].pc = pc /\ req'[s].pc = "idle"

\* C1: in the reminder-keeping variants, once every request of a failure-free
\* one-at-a-time run has completed, a Reminder with appointmentId = a exists
\* if and only if an Appointment with _id = a exists.
C1_ReminderIffAppointment ==
  (variant \in ReminderVariants /\ NoneInFlight) =>
    \A id \in KnownIds :
      (ReminderMatches(reminders, id) # {}) <=> (\E a \in appointments : a.id = id)

\* C2: when a successful submit-booking for a phone completes right after
\* another successful submit-booking for the same phone, exactly one
\* Appointment exists for the phone, it carries the second submission's
\* fields, and exactly one Reminder exists for it, with the alert time of the
\* second submission.
C2_SecondSubmitLeavesOneOfEach ==
  [][\A s \in Slots :
       ( /\ Completes(s, "submit", "create_reminder")
         /\ last.op = "submit" /\ last.status = 200 /\ ~last.err
         /\ last.phone = req[s].body.phone )
       => /\ FindByPhone(appointments', req[s].body.phone)
               = {MkAppointment(req[s].appt, req[s].body)}
          /\ Cardinality(ReminderMatches(reminders', req[s].appt)) = 1
          /\ \A i \in ReminderMatches(reminders', req[s].appt) :
               reminders'[i].alertTime
                 = ExpectedAlertMs(req[s].body.date, req[s].body.time)
    ]_vars

\* C3: once every request of a failure-free one-at-a-time run of submits,
\* modifies and cancels has completed, every Reminder that references an
\* existing Appointment has alertTime = that appointment's date+time minus
\* one hour.
C3_AlertTimeCurrent ==
  NoneInFlight =>
    \A i \in 1..Len(reminders) : \A a \in appointments :
      reminders[i].appointmentId = a.id =>
        reminders[i].alertTime = ExpectedAlertMs(a.date, a.time)

AtMostOnePerPhone ==
  \A a \in appointments : \A b \in appointments : a.phone = b.phone => a = b

C5_CancelRemovesBoth ==
  [][\A s \in Slots :
       (Completes(s, "cancel", "delete_reminder") /\ last'.status = 200)
       => /\ FindByPhone(appointments', req[s].body.phone) = {}
          /\ ReminderMatches(reminders', req[s].appt) = {}
    ]_vars

\* C6: the step of cancel-appointment that looks up a phone with no
\* Appointment ends the handler with 404 (500 when the lookup itself fails),
\* issues no Reminder delete, and leaves the Appointment collection, the
\* Reminder collection and the token store as they were.
C6_CancelUnknownChangesNothing ==
  [][\A s \in Slots :
       ( /\ req[s].op = "cancel" /\ req[s].pc = "delete" /\ req'[s].pc # "delete"
         /\ \A a \in appointments : a.phone # req[s].body.phone )
       => /\ req'[s].pc = "idle"
          /\ last'.op = "cancel"
          /\ last'.status = IF last'.err THEN 500 ELSE 404
          /\ appointments' = appointments
          /\ reminders' = reminders
          /\ tokenStore' = tokenStore
    ]_vars

\* A cancel of an unknown phone was answered 404 while other records exist.
C6_Witness ==
  /\ last.op = "cancel" /\ last.status = 404
  /\ appointments # {} /\ reminders # <<>>

\* C7: the step of modify-appointment that looks up a phone with no
\* Appointment ends the handler with 404 (500 when the lookup itself fails),
\* issues no Reminder update, creates no Appointment and no Reminder and
\* changes no record.
C7_ModifyUnknownChangesNothing ==
  [][\A s \in Slots :
       ( /\ req[s].op = "modify" /\ req[s].pc = "update" /\ req'[s].pc # "update"
         /\ \A a \in appointments : a.phone # req[s].body.phone )
       => /\ req'[s].pc = "idle"
          /\ last'.op = "modify"
          /\ last'.status = IF last'.err THEN 500 ELSE 404
          /\ appointments' = appointments
          /\ reminders' = reminders
    ]_vars

\* A modify of an unknown phone was answered 404 while other records exist.
C7_Witness ==
  /\ last.op = "modify" /\ last.status = 404 /\ last.phone \in Phones
  /\ appointments # {} /\ reminders # <<>>

\* C8: when the Reminder step of a successful modify-appointment completes, a
\* Reminder of the appointment has the alert time of the new date+time and
\* status pending, whatever its status was before.
C8_ModifyResetsReminder ==
  [][\A s \in Slots :
       Completes(s, "modify", "update_reminder")
       => \E i \in ReminderMatches(reminders', req[s].appt) :
            /\ reminders'[i].alertTime
                 = ExpectedAlertMs(req[s].body.date, req[s].body.time)
            /\ reminders'[i].status = "pending"
    ]_vars

\* C9: a submit-booking whose name, phone, service, time or date is missing is
\* answered 400 in the step in which it arrives, with no repository call and
\* no change to either collection; a submit-booking without notes whose other
\* fields are present is not answered 400 but goes on to its Appointment write.
C9_IncompleteSubmitRejected ==
  [][\A s \in Slots : \A b \in Bodies :
       (reqCount' # reqCount /\ SubmitStart(s, b)) =>
         IF \E f \in {b.name, b.phone, b.service, b.time, b.date} : f = Missing
         THEN /\ last' = [op |-> "submit", phone |-> b.phone, status |-> 400,
                          err |-> FALSE, writes |-> 1]
              /\ req' = req
              /\ appointments' = appointments
              /\ reminders' = reminders
              /\ nextId' = nextId
         ELSE /\ req'[s].pc = "upsert" /\ req'[s].body = b
              /\ last' = last
    ]_vars

\* A submit was answered 400 while the collections hold records, one of them
\* stored by a submit that carried no notes.
C9_Witness ==
  /\ last.op = "submit" /\ last.status = 400
  /\ \E a \in appointments : a.notes = Missing
  /\ reminders # <<>>

\* C10: in the map variant, validate-token of a token that generate-token
\* returned for (phone P, name N) answers 200 with exactly {phone: P, name: N},
\* whatever was issued afterwards.
C10_IssuedTokenRedeemsToIssuer ==
  [][\A i \in issued :
       ( /\ tokCount' = tokCount + 1
         /\ tokenReply'.op = "validate" /\ tokenReply'.token = i.token )
       => /\ tokenReply'.status = 200
          /\ tokenReply'.phone = i.phone
          /\ tokenReply'.name = i.name
    ]_vars

\* C11: validate-token leaves the token store as it was, whether it answers
\* 200, 400 or 401, and what it answers with 200 is the store's entry for the
\* token; no token request removes an entry from the map, and in the signed
\* variant validate-token takes no issued token away.
C11_ValidateDoesNotConsume ==
  [][/\ (tokCount' = tokCount + 1 /\ tokenReply'.op = "validate"
           /\ tokenReply' # tokenReply)
          => /\ tokenStore' = tokenStore
             /\ tokenReply'.status = 200 =>
                  /\ TokenStoreGet(tokenStore', tokenReply'.token).phone = tokenReply'.phone
                  /\ TokenStoreGet(tokenStore', tokenReply'.token).name = tokenReply'.name
     /\ DOMAIN tokenStore \subseteq DOMAIN tokenStore'
     /\ jwtIssued \subseteq jwtIssued'
    ]_vars

\* An issued token was redeemed and its entry is still in the store.
C11_Witness ==
  /\ tokenReply.op = "validate" /\ tokenReply.status = 200
  /\ tokenReply.token \in DOMAIN tokenStore
  /\ tokenStore[tokenReply.token] = Data(tokenReply.phone, tokenReply.name)
  /\ \E i \in issued : i.token = tokenReply.token

\* C12: validate-token answers 400 when no token is supplied; in the map
\* variant 401 for every token that was never issued and 200 for every issued
\* one; in the signed variant 200 for an issued token presented before its 15
\* minutes are over and 401 for a token presented later or never issued.
C12_ValidateStatus ==
  [][/\ (tokCount' = tokCount + 1 /\ tokenReply'.op = "validate"
           /\ variant = "server4")
          => tokenReply'.status =
               IF tokenReply'.token = Missing THEN 400
               ELSE IF \E i \in issued : i.token = tokenReply'.token THEN 200
               ELSE 401
     /\ (tokCount' = tokCount + 1 /\ jwtReply'.op = "validate"
           /\ variant = "part_000")
          => IF ~jwtReply'.token.present THEN jwtReply'.status = 400
             ELSE IF jwtReply'.token \notin jwtIssued THEN jwtReply'.status = 401
             ELSE IF clock < jwtReply'.token.exp THEN jwtReply'.status = 200
             ELSE IF clock > jwtReply'.token.exp THEN jwtReply'.status = 401
             ELSE TRUE
    ]_vars

\* C13: in submit-booking and modify-appointment the success response is
\* written in the step that completes the Appointment write, while the
\* Reminder collection is still untouched; the later Reminder step always
\* leaves the caller with that 200, and when the Reminder write fails the
\* Appointment collection and the Reminder collection stay as they were and
\* the handler is over (no second attempt).
C13_ResponseBeforeReminderWrite ==
  [][\A s \in Slots :
       /\ ( /\ req[s].pc \in {"upsert", "update"}
            /\ req'[s].pc \in {"create_reminder", "update_reminder"} )
          => /\ req'[s].status = 200
             /\ reminders' = reminders
             /\ \E a \in appointments' :
                  a.id = req'[s].appt /\ a = MkAppointment(a.id, req[s].body)
       /\ ( /\ req[s].pc \in {"create_reminder", "update_reminder"}
            /\ req'[s] # req[s] )
          => /\ req[s].status = 200
             /\ req'[s] = Idle
             /\ last'.status = 200
             /\ last'.err => /\ appointments' = appointments
                             /\ reminders' = reminders
    ]_vars

\* The only request so far was a well-formed submit whose Reminder write
\* failed: the caller got 200, the Appointment is stored, no Reminder is.
C13_Witness ==
  /\ reqCount = 1 /\ NoneInFlight
  /\ last.op = "submit" /\ last.status = 200 /\ last.err
  /\ \E a \in appointments : a.phone = last.phone /\ NewDate(a.date, a.time).valid
  /\ reminders = <<>>

\* C14: cancel-appointment has written no response while its Reminder delete
\* is pending; when that delete succeeds the Reminder is gone in the step
\* that answers 200, and when it fails the caller gets 500, the Reminder
\* collection is unchanged and the Appointment is already deleted.
C14_ReminderDeleteBeforeResponse ==
  [][\A s \in Slots :
       /\ req'[s].pc = "delete_reminder" => req'[s].status = 0
       /\ Completes(s, "cancel", "delete_reminder")
          => /\ last'.op = "cancel"
             /\ \A a \in appointments' : a.id # req[s].appt
             /\ IF last'.err
                THEN last'.status = 500 /\ reminders' = reminders
                ELSE /\ last'.status = 200
                     /\ \E i \in ReminderTargets(reminders, req[s].appt) :
                          reminders' = DeleteReminderAt(reminders, i)
    ]_vars

\* A submit and then a cancel whose Reminder delete failed: the caller got
\* 500, the Appointment is gone and its Reminder is still stored.
C14_Witness ==
  /\ reqCount = 2 /\ NoneInFlight
  /\ last.op = "cancel" /\ last.status = 500 /\ last.err
  /\ appointments = {} /\ Len(reminders) = 1

StepRank(pc) ==
  CASE pc \in {"upsert", "update", "delete"} -> 1
    [] pc \in {"create_reminder", "update_reminder", "delete_reminder"} -> 2
    [] OTHER -> 3

\* C16: when a submit-booking and a cancel-appointment for the same phone are
\* the only two requests, their repository steps interleave in any order and
\* none fails, then at the step that finishes the second of them no Reminder
\* refers to an Appointment that does not exist and every Appointment has a
\* Reminder.
C16_SubmitCancelRaceKeepsInvariant ==
  [][\A s \in Slots :
       ( /\ variant \in ReminderVariants
         /\ reqCount = 2
         /\ req[s].pc # "idle" /\ req'[s].pc = "idle"
         /\ \A t \in Slots \ {s} : req[t].pc = "idle"
         /\ {last.op, last'.op} = {"submit", "cancel"}
         /\ last.phone = last'.phone
         /\ ~last.err /\ ~last'.err )
       => /\ \A i \in 1..Len(reminders') :
               \E a \in appointments' : a.id = reminders'[i].appointmentId
          /\ \A a \in appointments' : ReminderMatches(reminders', a.id) # {}
    ]_vars

\* C17: when the Appointment write of submit-booking or modify-appointment,
\* or the Appointment delete of cancel-appointment, fails, the caller gets
\* 500 from the error handler as the only response, the handler is over
\* without a Reminder call, and no Appointment and no Reminder has changed;
\* and a handler only ever moves forward through its repository calls, so
\* each is attempted at most once per request.
C17_FailureSurfacedOnce ==
  [][\A s \in Slots :
       /\ (SubmitUpsert(s, FALSE) \/ ModifyUpdate(s, FALSE) \/ CancelDelete(s, FALSE))
          => /\ last'.status = 500 /\ last'.err /\ last'.writes = 1
             /\ last'.op = req[s].op
             /\ req'[s] = Idle
             /\ appointments' = appointments
             /\ reminders' = reminders
             /\ nextId' = nextId
       /\ (req[s].pc # "idle" /\ req'[s] # req[s])
          => /\ StepRank(req'[s].pc) > StepRank(req[s].pc)
             /\ req'[s].pc # "idle" => req'[s].op = req[s].op
    ]_vars

\* The only request so far was a submit whose Appointment write failed: the
\* caller got 500 and both collections are empty.
C17_Witness ==
  /\ reqCount = 1 /\ NoneInFlight
  /\ last.op = "submit" /\ last.status = 500 /\ last.err /\ last.writes = 1
  /\ appointments = {} /\ reminders = <<>>

C19_ModifyKeepsReminderCount ==
  [][\A s \in Slots :
       /\ (req[s].op = "modify" /\ req'[s] # req[s])
          => Len(reminders') = Len(reminders)
       /\ ( /\ Completes(s, "modify", "update_reminder")
            /\ ReminderMatches(reminders, req[s].appt) = {} )
          => ReminderMatches(reminders', req[s].appt) = {}
    ]_vars

\* A submit whose Reminder write failed, then a modify of the same phone that
\* ended with 200 and without error: the Appointment still has no Reminder.
C19_Witness ==
  /\ variant \in ReminderVariants
  /\ reqCount = 2 /\ NoneInFlight
  /\ last.op = "modify" /\ last.status = 200 /\ ~last.err
  /\ \E a \in appointments : a.phone = last.phone
  /\ reminders = <<>>

\* C20: every request that has ended was answered by exactly one response
\* write.
C20_AnsweredExactlyOnce ==
  last.op # "none" => last.writes = 1
====
